---- MODULE Spec2Model ----
(***************************************************************************)
(* Medical-Care-API: the authentication middleware (middleware/auth.js),   *)
(* the role gate and the appointment routes (routes/appointments.js),      *)
(* modelled over the relational store they query.                          *)
(*                                                                         *)
(*   SpecAuth   authenticateToken in front of GET /api/auth/profile        *)
(*   SpecRole   the role gate on the identity contexts                     *)
(*   Spec       the appointment routes, one request at a time              *)
(*   SpecRace   POST /api/appointments handled by two activations at once  *)
(*   SpecUsers  the account routes and the user routes                     *)
(*   SpecIdentity   the user routes with type, email and id-text inputs    *)
(*   SpecReset      forgot-password, reset-password and login              *)
(*   SpecAmbulance  the ambulance request routes, activations interleaved  *)
(*   SpecEvents     the event join and leave routes, activations           *)
(*                  interleaved                                            *)
(*                                                                         *)
(* Every route action is the whole request: authenticateToken, the         *)
(* validators and the handler.  The handlers are modelled as written over  *)
(* the tables their SQL names (routes/appointments.js imports pool from    *)
(* config/database.js, which exports sequelize only).                      *)
(*                                                                         *)
(* Time is counted in milliseconds since day 0, 00:00:00.000 UTC, as a JS  *)
(* Date does.  JWT timestamps (iat, exp) are whole seconds.                *)
(***************************************************************************)
EXTENDS Integers, Sequences, FiniteSets, TLC

VARIABLES
  users,         \* the Users table: a set of rows
  appointments,  \* the Appointments table: a set of rows
  nextId,        \* the AUTO_INCREMENT counter of the Appointments table
  nextUserId,    \* the AUTO_INCREMENT counter of the Users table
  passwordSet,   \* per user id, the password last set by register, change-password or reset-password
  resetSent,     \* the reset tokens forgot-password has answered with, each with its user and expiry
  inflight,      \* the booking requests being handled concurrently, per handler activation
  now,           \* the server clock (ms)
  req,           \* the request handled last
  res,           \* the response sent to it
  reqUser,       \* req.user, the identity context attached to it
  nextCalled,    \* whether the middleware passed control on with next()
  ambulances,         \* the Ambulances table
  ambulanceRequests,  \* the AmbulanceRequests table
  events,             \* the Events table
  eventParticipants   \* the EventParticipants table

vars == <<users, appointments, nextId, nextUserId, passwordSet, resetSent, inflight, now, req, res, reqUser, nextCalled,
         ambulances, ambulanceRequests, events, eventParticipants>>

-----------------------------------------------------------------------------
(* Bounds of the model *)

MaxDay == 1          \* the clock and the requested dates range over days 0..MaxDay
MaxHour == 2         \* ... at the hours 0..MaxHour of each day
MaxInitRows == 2     \* appointment rows the store holds when the server starts

(* Units and lifetimes *)

MsPerSecond == 1000
SecondsPerHour == 3600
HoursPerDay == 24
LoginTtlHours == 24      \* jwt.sign(..., { expiresIn: "24h" })
RegisterTtlDays == 7     \* jwt.sign(..., { expiresIn: "7d" })

MsPerHour == SecondsPerHour * MsPerSecond
LoginTtl == LoginTtlHours * SecondsPerHour
RegisterTtl == RegisterTtlDays * HoursPerDay * SecondsPerHour

InstantOf(d, h, ms) == (d * HoursPerDay + h) * MsPerHour + ms

\* the instants the clock shows: the modelled hours, on the hour
ClockInstants == { InstantOf(d, h, 0) : d \in 0..MaxDay, h \in 0..MaxHour }

\* the instants a client may ask for: the first and the last millisecond of
\* the first second of each modelled hour
SubSecondOffsets == {0, MsPerSecond - 1}

Instants == { InstantOf(d, h, ms) : d \in 0..MaxDay, h \in 0..MaxHour, ms \in SubSecondOffsets }

\* Math.floor(ms / 1000): the clock in whole seconds
ToSeconds(t) == t \div MsPerSecond

-----------------------------------------------------------------------------
(* JS objects are records; a property that was never set reads undefined *)

HasProp(obj, name) == name \in DOMAIN obj

NoUser == [userId |-> 0]     \* req.user before the middleware sets it

Response(status, message) == [status |-> status, message |-> message]

NoResponse == Response(0, "")

ValidationErrors == Response(400, "Validation errors")

-----------------------------------------------------------------------------
(* Passwords.  A password column holds a text: either the text a client     *)
(* typed, or the bcrypt hash of one, which is a different text.             *)

PlainText(p) == [bcrypt |-> FALSE, of |-> p]

\* bcrypt.hash(p, 12)
bcryptHash(p) == [bcrypt |-> TRUE, of |-> p]

\* bcrypt.compare(p, stored): false for a text that is not a bcrypt hash
bcryptCompareAnyHash(p, stored) == stored.bcrypt

bcryptCompare(p, stored) == stored = bcryptHash(p)

\* the password every user of the initial table registered with
InitialPassword == "secret1"

-----------------------------------------------------------------------------
(* The Users table as the server finds it *)

UserRow(id, email, name, type, password) ==
  [id |-> id, email |-> email, name |-> name, type |-> type, password |-> password]

InitUsers ==
  { UserRow(1, "alice@x", "Alice", "patient", bcryptHash(InitialPassword)),
    UserRow(2, "bob@x",   "Bob",   "patient", bcryptHash(InitialPassword)),
    UserRow(3, "dora@x",  "Dora",  "doctor",  bcryptHash(InitialPassword)),
    UserRow(4, "adam@x",  "Adam",  "admin",   bcryptHash(InitialPassword)) }

GoneUserId == Cardinality(InitUsers) + 1     \* an id no row has (a deleted user)

UsersById(U, id) == { u \in U : u.id = id }

-----------------------------------------------------------------------------
(* Tokens.  A header is a string; its characters are modelled by atoms: a  *)
(* space, or a run of non-space characters (the word Bearer, some other    *)
(* word, or the text of a JWT with its payload, expiry and the state of    *)
(* its signature).                                                         *)

Atom(ch, userId, type, iat, exp, sig) ==
  [ch |-> ch, userId |-> userId, type |-> type, iat |-> iat, exp |-> exp, sig |-> sig]

Space == Atom(" ", 0, "", 0, 0, "")
Bearer == Atom("Bearer", 0, "", 0, 0, "")
Junk == Atom("x", 0, "", 0, 0, "")

\* jwt.sign({userId, email, type}, JWT_SECRET, {expiresIn: ttl}) at time t
jwtSign(userId, type, t, ttl) ==
  Atom("jwt", userId, type, ToSeconds(t), ToSeconds(t) + ttl, "good")

\* the same text with its payload or signature altered
Tamper(tok) == [tok EXCEPT !.sig = "bad"]

\* String.prototype.split(sep) with a one-character separator: the pieces
\* between the separators
RECURSIVE Split(_, _)
Split(s, sep) ==
  IF s = <<>> THEN << <<>> >>
  ELSE LET rest == Split(Tail(s), sep)
       IN IF Head(s) = sep
          THEN << <<>> >> \o rest
          ELSE << <<Head(s)>> \o Head(rest) >> \o Tail(rest)

\* array[i] with a 0-based index; out of range reads undefined, which like
\* the empty string is falsy: both are the empty piece here
At(parts, i) == IF i + 1 <= Len(parts) THEN parts[i + 1] ELSE <<>>

Falsy(piece) == piece = <<>>

\* jwt.verify(token, JWT_SECRET) at time t: the error it throws, or "none"
jwtVerify(token, t) ==
  IF Len(token) # 1 \/ token[1].ch # "jwt" THEN "JsonWebTokenError"   \* jwt malformed
  ELSE IF token[1].sig # "good" THEN "JsonWebTokenError"              \* invalid signature
  ELSE IF ToSeconds(t) >= token[1].exp THEN "TokenExpiredError"
  ELSE "none"

\* the index of the piece of the header that authenticateToken takes as the token
TokenIndex == 2

AuthOutcome(r, u, n) == [res |-> r, user |-> u, next |-> n]

authenticateTokenTypeOfToken(authHeader, t, U) ==
  IF ~authHeader.present
  THEN \* authHeader is undefined: .split throws a TypeError, caught at the end
       AuthOutcome(Response(500, "Authentication error"), NoUser, FALSE)
  ELSE
    LET token == At(Split(authHeader.text, Space), TokenIndex)
    IN IF Falsy(token)
       THEN AuthOutcome(Response(401, "Access token required"), NoUser, FALSE)
       ELSE
         LET err == jwtVerify(token, t)
         IN IF err = "JsonWebTokenError"
            THEN AuthOutcome(Response(401, "Invalid token"), NoUser, FALSE)
            ELSE IF err = "TokenExpiredError"
            THEN AuthOutcome(Response(401, "Token expired"), NoUser, FALSE)
            ELSE
              LET found == UsersById(U, token[1].userId)
              IN IF found = {}
                 THEN AuthOutcome(Response(401, "User not found"), NoUser, FALSE)
                 ELSE LET user == CHOOSE u \in found : TRUE
                      IN AuthOutcome(NoResponse,
                                     [userId |-> user.id, email |-> user.email,
                                      name |-> user.name, type |-> token[1].type],
                                     TRUE)

authenticateTokenWithId(authHeader, t, U) ==
  IF ~authHeader.present
  THEN \* authHeader is undefined: .split throws a TypeError, caught at the end
       AuthOutcome(Response(500, "Authentication error"), NoUser, FALSE)
  ELSE
    LET token == At(Split(authHeader.text, Space), TokenIndex)
    IN IF Falsy(token)
       THEN AuthOutcome(Response(401, "Access token required"), NoUser, FALSE)
       ELSE
         LET err == jwtVerify(token, t)
         IN IF err = "JsonWebTokenError"
            THEN AuthOutcome(Response(401, "Invalid token"), NoUser, FALSE)
            ELSE IF err = "TokenExpiredError"
            THEN AuthOutcome(Response(401, "Token expired"), NoUser, FALSE)
            ELSE
              LET found == UsersById(U, token[1].userId)
              IN IF found = {}
                 THEN AuthOutcome(Response(401, "User not found"), NoUser, FALSE)
                 ELSE LET user == CHOOSE u \in found : TRUE
                      IN AuthOutcome(NoResponse,
                                     [id |-> user.id, userId |-> user.id, email |-> user.email,
                                      name |-> user.name, type |-> user.type],
                                     TRUE)

\* authenticateToken(req, res, next): the response sent (NoResponse if none),
\* req.user afterwards, and whether next() was called
authenticateToken(authHeader, t, U) ==
  IF ~authHeader.present
  THEN \* authHeader is undefined: .split throws a TypeError, caught at the end
       AuthOutcome(Response(500, "Authentication error"), NoUser, FALSE)
  ELSE
    LET token == At(Split(authHeader.text, Space), TokenIndex)
    IN IF Falsy(token)
       THEN AuthOutcome(Response(401, "Access token required"), NoUser, FALSE)
       ELSE
         LET err == jwtVerify(token, t)
         IN IF err = "JsonWebTokenError"
            THEN AuthOutcome(Response(401, "Invalid token"), NoUser, FALSE)
            ELSE IF err = "TokenExpiredError"
            THEN AuthOutcome(Response(401, "Token expired"), NoUser, FALSE)
            ELSE
              LET found == UsersById(U, token[1].userId)
              IN IF found = {}
                 THEN AuthOutcome(Response(401, "User not found"), NoUser, FALSE)
                 ELSE LET user == CHOOSE u \in found : TRUE
                      IN AuthOutcome(NoResponse,
                                     [userId |-> user.id, email |-> user.email,
                                      name |-> user.name, type |-> user.type],
                                     TRUE)

-----------------------------------------------------------------------------
(* Requests *)

Header(text) == [present |-> TRUE, text |-> text]
NoHeader == [present |-> FALSE, text |-> <<>>]

\* "Bearer <token>", the form the README documents
BearerHeader(tok) == Header(<<Bearer, Space, tok>>)
\* headers whose third piece is the token
SpacedHeader(tok) == Header(<<Bearer, Space, Space, tok>>)
WordHeader(tok) == Header(<<Bearer, Space, Junk, Space, tok>>)

\* a body field holding a date: the ISO 8601 string the client sent, or the
\* Date object a sanitizer put in its place
DateString(t) == [kind |-> "string", valid |-> TRUE, t |-> t]
BadDateString == [kind |-> "string", valid |-> FALSE, t |-> 0]
NoDate == [kind |-> "undefined", valid |-> FALSE, t |-> 0]

Request(route, header, at) ==
  [route |-> route, header |-> header, at |-> at,
   id |-> 0, doctor_id |-> 0, appointment_date |-> NoDate, reason |-> "",
   status |-> "", roles |-> {}]

NoRequest == Request("", NoHeader, 0)

\* the tokens the server has signed by time t for the users with these ids
\* (at login, for 24 hours, or at registration, for 7 days)
IssuedTokens(rows, t) ==
  { jwtSign(u.id, u.type, i, ttl) :
      u \in rows,
      i \in {j \in ClockInstants : j <= t},
      ttl \in {LoginTtl, RegisterTtl} }

\* a user whose row is gone from the table, still holding tokens
GoneUser == UserRow(GoneUserId, "gone@x", "Gone", "patient", bcryptHash(InitialPassword))

\* what a client may put where a token goes
PresentedTokens(t) ==
  LET issued == IssuedTokens({u \in InitUsers : u.id = 1} \cup {GoneUser}, t)
  IN issued \cup { Tamper(tok) : tok \in issued } \cup {Junk}

AuthHeaders(t) ==
  {NoHeader, Header(<<>>), Header(<<Bearer>>)}
    \cup { BearerHeader(tok) : tok \in PresentedTokens(t) }
    \cup { SpacedHeader(tok) : tok \in PresentedTokens(t) }
    \cup { WordHeader(tok) : tok \in PresentedTokens(t) }

-----------------------------------------------------------------------------
(* Handler activations.  Node runs a handler until it awaits a query and   *)
(* may run another request's handler in between.                           *)

Handlers == {1, 2}

\* an activation: where it stands, its request, req.user, the response it
\* has sent
Activation(pc, r, user, response) == [pc |-> pc, req |-> r, user |-> user, res |-> response]

NoActivations == [h \in Handlers |-> Activation("idle", NoRequest, NoUser, NoResponse)]

\* the password a route has set for the rows it wrote or added
Recorded(ps, U, U2, p) ==
  [id \in DOMAIN ps \cup { u.id : u \in U2 } |->
     IF \E u \in U2 \ U : u.id = id THEN p ELSE ps[id]]

-----------------------------------------------------------------------------
(* The clock *)

Idle == req.route = ""

Tick ==
  /\ Idle
  /\ \E t \in ClockInstants : t > now /\ now' = t
  /\ UNCHANGED <<users, nextUserId, passwordSet, inflight, appointments, nextId, req, res, reqUser, nextCalled, resetSent, ambulances, ambulanceRequests, events, eventParticipants>>

\* the response has gone out; the server takes the next request
Done ==
  /\ ~Idle
  /\ req' = NoRequest
  /\ res' = NoResponse
  /\ reqUser' = NoUser
  /\ nextCalled' = FALSE
  /\ UNCHANGED <<users, nextUserId, passwordSet, inflight, appointments, nextId, now, resetSent, ambulances, ambulanceRequests, events, eventParticipants>>

-----------------------------------------------------------------------------
(* GET /api/auth/profile: authenticateToken, then the handler *)

profileHandler(user, U) ==
  IF UsersById(U, user.userId) = {}
  THEN Response(404, "User not found")
  ELSE Response(200, "")

GetProfile ==
  /\ Idle
  /\ \E h \in AuthHeaders(now) :
      LET a == authenticateToken(h, now, users)
      IN /\ req' = Request("GET /api/auth/profile", h, now)
         /\ reqUser' = a.user
         /\ nextCalled' = a.next
         /\ res' = IF a.next THEN profileHandler(a.user, users) ELSE a.res
         /\ UNCHANGED <<users, nextUserId, passwordSet, inflight, appointments, nextId, now, resetSent, ambulances, ambulanceRequests, events, eventParticipants>>

-----------------------------------------------------------------------------
(* The authentication middleware on its own route *)

InitAuth ==
  /\ users = InitUsers
  /\ nextUserId = Cardinality(InitUsers) + 1
  /\ passwordSet = [id \in { u.id : u \in InitUsers } |-> InitialPassword]
  /\ inflight = NoActivations
  /\ resetSent = {}
  /\ ambulances = {} /\ ambulanceRequests = {}
  /\ events = {} /\ eventParticipants = {}
  /\ appointments = {}
  /\ nextId = 1
  /\ now = 0
  /\ req = NoRequest
  /\ res = NoResponse
  /\ reqUser = NoUser
  /\ nextCalled = FALSE

NextAuth == Tick \/ GetProfile \/ Done

SpecAuth == InitAuth /\ [][NextAuth]_vars

-----------------------------------------------------------------------------
(* The role gate.  Every route file imports authorizeRoles from            *)
(* middleware/auth.js, which does not define it; it is the gate of the     *)
(* specification: pass iff the role of the context is in the allow-list.   *)

Roles == {"patient", "doctor", "admin"}

Forbidden == Response(403, "Access denied")

authorizeRolesAnyRole(user, allowedRoles) ==
  IF HasProp(user, "role")
  THEN AuthOutcome(NoResponse, user, TRUE)
  ELSE AuthOutcome(Forbidden, user, FALSE)

authorizeRoles(user, allowedRoles) ==
  IF HasProp(user, "role") /\ user.role \in allowedRoles
  THEN AuthOutcome(NoResponse, user, TRUE)
  ELSE AuthOutcome(Forbidden, user, FALSE)

\* the identity contexts a request may carry into the gate: the one
\* authenticateToken attaches, and the one of the specification
Contexts ==
  { [userId |-> u.id, email |-> u.email, name |-> u.name, type |-> u.type] : u \in InitUsers }
    \cup { [userId |-> u.id, email |-> u.email, name |-> u.name, role |-> u.type] : u \in InitUsers }

\* a route guarded by authorizeRoles(...allowedRoles), entered with a context
RoleGate ==
  /\ Idle
  /\ \E user \in Contexts, allowedRoles \in SUBSET Roles :
       LET a == authorizeRoles(user, allowedRoles)
       IN /\ req' = [Request("role gate", NoHeader, now) EXCEPT !.roles = allowedRoles]
          /\ reqUser' = a.user
          /\ nextCalled' = a.next
          /\ res' = a.res
          /\ UNCHANGED <<users, nextUserId, passwordSet, inflight, appointments, nextId, now, resetSent, ambulances, ambulanceRequests, events, eventParticipants>>

NextRole == Tick \/ RoleGate \/ Done

SpecRole == InitAuth /\ [][NextRole]_vars

-----------------------------------------------------------------------------
(* Strings of the appointment routes: a string is a sequence of one-       *)
(* character strings.                                                      *)

Digits == <<"0", "1", "2", "3", "4", "5", "6", "7", "8", "9">>

DigitValue(c) == (CHOOSE i \in 1..10 : Digits[i] = c) - 1

TwoDigits(n) == <<Digits[(n \div 10) + 1], Digits[(n % 10) + 1]>>

IsDigit(c) == \E i \in 1..10 : Digits[i] = c

\* the decimal digits a text starts with
RECURSIVE DigitPrefix(_)
DigitPrefix(s) ==
  IF s = <<>> \/ ~IsDigit(Head(s)) THEN <<>>
  ELSE <<Head(s)>> \o DigitPrefix(Tail(s))

\* the number a string of decimal digits writes
RECURSIVE DigitsValue(_)
DigitsValue(s) ==
  IF s = <<>> THEN 0
  ELSE DigitsValue(SubSeq(s, 1, Len(s) - 1)) * 10 + DigitValue(s[Len(s)])

\* parseInt(s): the number written by the digits s starts with; what follows
\* them is ignored.  A text that starts with no digit gives NaN (isNaN).
parseInt(s) == DigitsValue(DigitPrefix(s))

isNaN(s) == DigitPrefix(s) = <<>>

\* String(n) of a natural number
RECURSIVE DecimalText(_)
DecimalText(n) ==
  IF n < 10 THEN <<Digits[n + 1]>>
  ELSE DecimalText(n \div 10) \o <<Digits[(n % 10) + 1]>>

Power10(k) == IF k = 0 THEN 1 ELSE IF k = 1 THEN 10 ELSE IF k = 2 THEN 100 ELSE 1000

\* MySQL compares an integer column with a string parameter as numbers: the
\* text is read as digits, an optional fraction and an optional exponent
\* ("0.1e1" is 1).  Whether the number the text writes equals n.
SqlEqualsInt(s, n) ==
  LET int == DigitPrefix(s)
      r1 == SubSeq(s, Len(int) + 1, Len(s))
      frac == IF r1 # <<>> /\ Head(r1) = "." THEN DigitPrefix(Tail(r1)) ELSE <<>>
      r2 == IF r1 # <<>> /\ Head(r1) = "." THEN SubSeq(r1, Len(frac) + 2, Len(r1)) ELSE r1
      exp == IF r2 # <<>> /\ Head(r2) = "e" THEN DigitsValue(DigitPrefix(Tail(r2))) ELSE 0
  IN /\ int \o frac # <<>>
     /\ DigitsValue(int \o frac) * Power10(exp) = n * Power10(Len(frac))

\* the hour of the day of an instant (UTC)
HourOf(t) == (t \div MsPerHour) % HoursPerDay

\* "hh:00:00", a TIME column as the driver returns it
TimeText(h) == TwoDigits(h) \o <<":", "0", "0", ":", "0", "0">>

\* "<date>Thh:00:00", the ISO 8601 text of an instant on the hour; the date
\* part is the single character "D"
IsoText(t) == <<"D", "T">> \o TimeText(HourOf(t))

-----------------------------------------------------------------------------
(* The Doctors table *)

Doctors ==
  { [id |-> 1, open_hour |-> TimeText(1), close_hour |-> TimeText(2), is_active |-> 1, user_id |-> 3],
    [id |-> 2, open_hour |-> TimeText(0), close_hour |-> TimeText(2), is_active |-> 0, user_id |-> 0] }

NoDoctorId == Cardinality(Doctors) + 1     \* an id no doctor has

-----------------------------------------------------------------------------
(* POST /api/appointments *)

\* isISO8601().toDate(): the sanitizer replaces the string in req.body by
\* the Date it denotes
toDate(v) == [v EXCEPT !.kind = "Date"]

\* new Date(`${appointment_date}`): a Date is written out by toString(),
\* which has no milliseconds, and read back
DateOfTemplate(v) ==
  IF v.kind = "Date" THEN v.t - (v.t % MsPerSecond) ELSE v.t

\* appointmentDateTime <= now
NotInFutureStrict(appointmentDateTime, t) == appointmentDateTime < t

NotInFuture(appointmentDateTime, t) == appointmentDateTime <= t

BookOutcome(r, A, n) == [res |-> r, appointments |-> A, nextId |-> n]

BookFailed == Response(500, "Failed to book appointment")

NewAppointment(id, patient_id, doctor_id, date) ==
  [id |-> id, patient_id |-> patient_id, doctor_id |-> doctor_id,
   appointment_date |-> date, status |-> "scheduled", notes |-> ""]

\* the handler of POST /, after authenticateToken and the validators
bookHandler(user, body, t, A, nid) ==
  IF ~body.appointment_date.valid \/ body.reason = ""
  THEN BookOutcome(Response(400, "Validation errors"), A, nid)
  ELSE
    LET appointment_date == toDate(body.appointment_date)
        \* patient_id = req.user.id
        doctors == { d \in Doctors : d.id = body.doctor_id /\ d.is_active = 1 }
    IN IF doctors = {}
       THEN BookOutcome(Response(404, "Doctor not found"), A, nid)
       ELSE
         LET doctor == CHOOSE d \in doctors : TRUE
         IN IF NotInFuture(DateOfTemplate(appointment_date), t)
            THEN BookOutcome(Response(400, "Appointment must be scheduled for a future date"), A, nid)
            ELSE IF appointment_date.kind # "string"
            THEN \* a Date has no split method: TypeError, caught at the end
                 BookOutcome(BookFailed, A, nid)
            ELSE
              LET appointmentHour == parseInt(Split(Split(IsoText(appointment_date.t), "T")[2], ":")[1])
                  openHour == parseInt(Split(doctor.open_hour, ":")[1])
                  closeHour == parseInt(Split(doctor.close_hour, ":")[1])
              IN IF appointmentHour < openHour \/ appointmentHour >= closeHour
                 THEN BookOutcome(Response(400, "Appointment time must be within doctor's working hours"), A, nid)
                 ELSE IF { a \in A : /\ a.doctor_id = body.doctor_id
                                     /\ a.appointment_date = appointment_date.t
                                     /\ a.status # "cancelled" } # {}
                 THEN BookOutcome(Response(400, "This time slot is already booked"), A, nid)
                 ELSE IF ~HasProp(user, "id")
                 THEN \* a bind parameter is undefined: execute throws
                      BookOutcome(BookFailed, A, nid)
                 ELSE IF { a \in A : /\ a.patient_id = user.id
                                     /\ a.appointment_date = appointment_date.t
                                     /\ a.status # "cancelled" } # {}
                 THEN BookOutcome(Response(400, "You already have an appointment at this time"), A, nid)
                 ELSE BookOutcome(Response(201, "Appointment booked successfully"),
                                  A \cup {NewAppointment(nid, user.id, body.doctor_id, appointment_date.t)},
                                  nid + 1)

\* the headers of the callers of the appointment routes: a token signed at
\* registration for users 1 and 2, sent so that its third piece is the
\* token, and the token of user 1 sent as "Bearer <token>"
CallerToken(id) ==
  LET u == CHOOSE x \in InitUsers : x.id = id
  IN jwtSign(u.id, u.type, 0, RegisterTtl)

CallerHeaders ==
  { SpacedHeader(CallerToken(1)), SpacedHeader(CallerToken(2)), BearerHeader(CallerToken(1)) }

BookBodies ==
  [doctor_id : {d.id : d \in Doctors} \cup {NoDoctorId},
   appointment_date : {DateString(t) : t \in Instants},
   reason : {"checkup"}]
    \cup { [doctor_id |-> 1, appointment_date |-> BadDateString, reason |-> "checkup"],
           [doctor_id |-> 1, appointment_date |-> DateString(0), reason |-> ""] }

BookRequest(h, b, t) ==
  [Request("POST /api/appointments", h, t) EXCEPT
     !.doctor_id = b.doctor_id, !.appointment_date = b.appointment_date, !.reason = b.reason]

Book ==
  /\ Idle
  /\ \E h \in CallerHeaders, b \in BookBodies :
       LET a == authenticateToken(h, now, users)
           out == IF a.next
                  THEN bookHandler(a.user, b, now, appointments, nextId)
                  ELSE BookOutcome(a.res, appointments, nextId)
       IN /\ req' = BookRequest(h, b, now)
          /\ reqUser' = a.user
          /\ nextCalled' = a.next
          /\ res' = out.res
          /\ appointments' = out.appointments
          /\ nextId' = out.nextId
          /\ UNCHANGED <<users, nextUserId, passwordSet, inflight, now, resetSent, ambulances, ambulanceRequests, events, eventParticipants>>

-----------------------------------------------------------------------------
(* PUT /api/appointments/:id *)

UpdatableStatuses == {"scheduled", "completed", "canceled"}

StatusOutcome(r, A) == [res |-> r, appointments |-> A]

updateStatusHandler(id, status, A) ==
  IF status = "" \/ status \notin UpdatableStatuses
  THEN StatusOutcome(Response(400, "Invalid status provided."), A)
  ELSE IF { a \in A : a.id = id } = {}
  THEN StatusOutcome(Response(404, "Appointment not found"), A)
  ELSE StatusOutcome(Response(200, "Appointment status updated successfully"),
                     { IF a.id = id THEN [a EXCEPT !.status = status] ELSE a : a \in A })

\* the ids a request may name: those of the rows ever stored, and one more
RowIds == 1..nextId

UpdateStatus ==
  /\ Idle
  /\ \E h \in CallerHeaders, id \in RowIds,
        status \in UpdatableStatuses \cup {"cancelled"} :
       LET a == authenticateToken(h, now, users)
           out == IF a.next
                  THEN updateStatusHandler(id, status, appointments)
                  ELSE StatusOutcome(a.res, appointments)
       IN /\ req' = [Request("PUT /api/appointments/:id", h, now) EXCEPT
                       !.id = id, !.status = status]
          /\ reqUser' = a.user
          /\ nextCalled' = a.next
          /\ res' = out.res
          /\ appointments' = out.appointments
          /\ UNCHANGED <<users, nextUserId, passwordSet, inflight, nextId, now, resetSent, ambulances, ambulanceRequests, events, eventParticipants>>

-----------------------------------------------------------------------------
(* PUT /api/appointments/:id/cancel *)

CancelFailed == Response(500, "Failed to cancel appointment")

CancelDenied == Response(403, "Access denied. You can only cancel your own appointments.")

cancelHandler(user, id, reason, A) ==
  LET found == { a \in A : a.id = id }
  IN IF found = {}
     THEN StatusOutcome(Response(404, "Appointment not found"), A)
     ELSE
       LET appointment == CHOOSE a \in found : TRUE
       IN IF appointment.status = "cancelled"
          THEN StatusOutcome(Response(400, "Appointment is already cancelled"), A)
          ELSE IF appointment.status = "completed"
          THEN StatusOutcome(Response(400, "Cannot cancel completed appointment"), A)
          ELSE IF /\ HasProp(user, "role") /\ user.role = "patient"
                  /\ (~HasProp(user, "id") \/ appointment.patient_id # user.id)
          THEN StatusOutcome(CancelDenied, A)
          ELSE IF HasProp(user, "role") /\ user.role = "doctor" /\ ~HasProp(user, "id")
          THEN \* a bind parameter is undefined: execute throws
               StatusOutcome(CancelFailed, A)
          ELSE IF /\ HasProp(user, "role") /\ user.role = "doctor"
                  /\ { d \in Doctors : d.id = appointment.doctor_id /\ d.user_id = user.id } = {}
          THEN StatusOutcome(CancelDenied, A)
          ELSE StatusOutcome(Response(200, "Appointment cancelled successfully"),
                 { IF a.id = id
                   THEN [a EXCEPT !.status = "cancelled",
                                  !.notes = IF reason # "" THEN reason ELSE @]
                   ELSE a : a \in A })

Cancel ==
  /\ Idle
  /\ \E h \in CallerHeaders, id \in RowIds, reason \in {"", "sick"} :
       LET a == authenticateToken(h, now, users)
           out == IF a.next
                  THEN cancelHandler(a.user, id, reason, appointments)
                  ELSE StatusOutcome(a.res, appointments)
       IN /\ req' = [Request("PUT /api/appointments/:id/cancel", h, now) EXCEPT
                       !.id = id, !.reason = reason]
          /\ reqUser' = a.user
          /\ nextCalled' = a.next
          /\ res' = out.res
          /\ appointments' = out.appointments
          /\ UNCHANGED <<users, nextUserId, passwordSet, inflight, nextId, now, resetSent, ambulances, ambulanceRequests, events, eventParticipants>>

-----------------------------------------------------------------------------
(* DELETE /api/appointments/:id *)

deleteHandler(id, A) ==
  IF { a \in A : a.id = id } = {}
  THEN StatusOutcome(Response(404, "Appointment not found"), A)
  ELSE StatusOutcome(Response(200, "Appointment deleted successfully"),
                     { a \in A : a.id # id })

Delete ==
  /\ Idle
  /\ \E h \in CallerHeaders, id \in RowIds :
       LET a == authenticateToken(h, now, users)
           out == IF a.next
                  THEN deleteHandler(id, appointments)
                  ELSE StatusOutcome(a.res, appointments)
       IN /\ req' = [Request("DELETE /api/appointments/:id", h, now) EXCEPT !.id = id]
          /\ reqUser' = a.user
          /\ nextCalled' = a.next
          /\ res' = out.res
          /\ appointments' = out.appointments
          /\ UNCHANGED <<users, nextUserId, passwordSet, inflight, nextId, now, resetSent, ambulances, ambulanceRequests, events, eventParticipants>>

-----------------------------------------------------------------------------
(* The appointment routes over a store that already holds appointments *)

\* the slot the stored appointments are for: the last day, inside the
\* working hours of doctor 1
SlotDate == InstantOf(MaxDay, 1, 0)

Occupies(a) == a.status \notin {"cancelled", "canceled"}

\* at most one appointment that is not cancelled per doctor and dateTime
DoctorSlotInv(A) ==
  \A a \in A, b \in A :
    (a.id # b.id /\ a.doctor_id = b.doctor_id /\ a.appointment_date = b.appointment_date)
    => ~(Occupies(a) /\ Occupies(b))

\* at most one appointment that is not cancelled per patient and dateTime
PatientSlotInv(A) ==
  \A a \in A, b \in A :
    (a.id # b.id /\ a.patient_id = b.patient_id /\ a.appointment_date = b.appointment_date)
    => ~(Occupies(a) /\ Occupies(b))

StoredStatuses == {"scheduled", "completed", "cancelled"}

\* The stores the server may start on: up to MaxInitRows appointments for
\* SlotDate, the first of patient 1 with doctor 1, the second either of
\* patient 2 with doctor 1 or of patient 1 with doctor 2, any further one of
\* patient 2 with doctor 2; no doctor and no patient is taken twice
StoredRow(id, who, status) ==
  [id |-> id, patient_id |-> who[1], doctor_id |-> who[2],
   appointment_date |-> SlotDate, status |-> status, notes |-> ""]

InitTables ==
  LET who(i) == IF i = 1 THEN {<<1, 1>>}
                ELSE IF i = 2 THEN {<<2, 1>>, <<1, 2>>}
                ELSE {<<2, 2>>}
      pick(k) == { f \in [1..k -> ({<<1, 1>>, <<2, 1>>, <<1, 2>>, <<2, 2>>} \X StoredStatuses)] :
                     \A i \in 1..k : f[i][1] \in who(i) }
      table(k, f) == { StoredRow(i, f[i][1], f[i][2]) : i \in 1..k }
      all == UNION { { table(k, f) : f \in pick(k) } : k \in 0..MaxInitRows }
  IN { A \in all : DoctorSlotInv(A) /\ PatientSlotInv(A) }

\* the instant at which the appointment routes are exercised: the dates
\* asked for lie before it, at it, within its second and after it
BookingNow == InstantOf(0, 1, 0)

InitBooking ==
  /\ users = InitUsers
  /\ nextUserId = Cardinality(InitUsers) + 1
  /\ passwordSet = [id \in { u.id : u \in InitUsers } |-> InitialPassword]
  /\ inflight = NoActivations
  /\ resetSent = {}
  /\ ambulances = {} /\ ambulanceRequests = {}
  /\ events = {} /\ eventParticipants = {}
  /\ appointments \in InitTables
  /\ nextId = Cardinality(appointments) + 1
  /\ now = BookingNow
  /\ req = NoRequest
  /\ res = NoResponse
  /\ reqUser = NoUser
  /\ nextCalled = FALSE

Next == Book \/ UpdateStatus \/ Cancel \/ Delete \/ Done

Spec == InitBooking /\ [][Next]_vars

-----------------------------------------------------------------------------
(* POST /api/appointments handled concurrently.  The handler awaits four   *)
(* queries: the doctor (line 123), the doctor's slot (160), the patient's  *)
(* slot (173) and the INSERT (186); an activation stands at the query it   *)
(* awaits, and the code between two queries runs without interruption.     *)

RaceOutcome(act, A, n) == [act |-> act, appointments |-> A, nextId |-> n]

Answered(act, response) == [act EXCEPT !.pc = "done", !.res = response]

Awaiting(act, pc) == [act EXCEPT !.pc = pc]

\* the awaited query runs on the store as it is now, then the handler runs
\* on to its next query or to its response
bookResume(act, t, A, nid) ==
  LET body == act.req
      user == act.user
      appointment_date == toDate(body.appointment_date)
  IN
  IF act.pc = "doctor"
  THEN
    LET doctors == { d \in Doctors : d.id = body.doctor_id /\ d.is_active = 1 }
    IN IF doctors = {}
       THEN RaceOutcome(Answered(act, Response(404, "Doctor not found")), A, nid)
       ELSE
         LET doctor == CHOOSE d \in doctors : TRUE
         IN IF NotInFuture(DateOfTemplate(appointment_date), t)
            THEN RaceOutcome(Answered(act, Response(400, "Appointment must be scheduled for a future date")), A, nid)
            ELSE IF appointment_date.kind # "string"
            THEN \* a Date has no split method: TypeError, caught at the end
                 RaceOutcome(Answered(act, BookFailed), A, nid)
            ELSE
              LET appointmentHour == parseInt(Split(Split(IsoText(appointment_date.t), "T")[2], ":")[1])
                  openHour == parseInt(Split(doctor.open_hour, ":")[1])
                  closeHour == parseInt(Split(doctor.close_hour, ":")[1])
              IN IF appointmentHour < openHour \/ appointmentHour >= closeHour
                 THEN RaceOutcome(Answered(act, Response(400, "Appointment time must be within doctor's working hours")), A, nid)
                 ELSE RaceOutcome(Awaiting(act, "doctorSlot"), A, nid)
  ELSE IF act.pc = "doctorSlot"
  THEN
    IF { a \in A : /\ a.doctor_id = body.doctor_id
                   /\ a.appointment_date = appointment_date.t
                   /\ a.status # "cancelled" } # {}
    THEN RaceOutcome(Answered(act, Response(400, "This time slot is already booked")), A, nid)
    ELSE IF ~HasProp(user, "id")
    THEN \* a bind parameter is undefined: execute throws
         RaceOutcome(Answered(act, BookFailed), A, nid)
    ELSE RaceOutcome(Awaiting(act, "patientSlot"), A, nid)
  ELSE IF act.pc = "patientSlot"
  THEN
    IF { a \in A : /\ a.patient_id = user.id
                   /\ a.appointment_date = appointment_date.t
                   /\ a.status # "cancelled" } # {}
    THEN RaceOutcome(Answered(act, Response(400, "You already have an appointment at this time")), A, nid)
    ELSE RaceOutcome(Awaiting(act, "insert"), A, nid)
  ELSE
    RaceOutcome(Answered(act, Response(201, "Appointment booked successfully")),
                A \cup {NewAppointment(nid, user.id, body.doctor_id, appointment_date.t)},
                nid + 1)

\* the bookings that race: for an active doctor, at a whole second, by the
\* callers whose token is read
RaceBodies ==
  { b \in BookBodies :
      /\ b.doctor_id \in { d.id : d \in { x \in Doctors : x.is_active = 1 } }
      /\ b.appointment_date.t % MsPerSecond = 0 }

RaceHeaders == { h \in CallerHeaders : authenticateToken(h, BookingNow, InitUsers).next }

\* a request arrives: authenticateToken and the validators run, and the
\* handler runs up to its first query
StartBooking(h) ==
  /\ inflight[h].pc = "idle"
  /\ \E hd \in RaceHeaders, b \in RaceBodies :
       LET a == authenticateToken(hd, now, users)
           act == Activation("doctor", BookRequest(hd, b, now), a.user, NoResponse)
       IN inflight' = [inflight EXCEPT ![h] =
            IF ~a.next THEN Answered(act, a.res)
            ELSE IF ~b.appointment_date.valid \/ b.reason = ""
            THEN Answered(act, ValidationErrors)
            ELSE act]
  /\ UNCHANGED <<users, nextUserId, passwordSet, appointments, nextId, now, req, res, reqUser, nextCalled, resetSent, ambulances, ambulanceRequests, events, eventParticipants>>

\* the query an activation awaits completes
ResumeBooking(h) ==
  /\ inflight[h].pc \notin {"idle", "done"}
  /\ LET out == bookResume(inflight[h], now, appointments, nextId)
     IN /\ inflight' = [inflight EXCEPT ![h] = out.act]
        /\ appointments' = out.appointments
        /\ nextId' = out.nextId
  /\ UNCHANGED <<users, nextUserId, passwordSet, now, req, res, reqUser, nextCalled, resetSent, ambulances, ambulanceRequests, events, eventParticipants>>

\* the response has gone out
FinishBooking(h) ==
  /\ inflight[h].pc = "done"
  /\ inflight' = [inflight EXCEPT ![h] = NoActivations[h]]
  /\ UNCHANGED <<users, nextUserId, passwordSet, appointments, nextId, now, req, res, reqUser, nextCalled, resetSent, ambulances, ambulanceRequests, events, eventParticipants>>

NextRace ==
  \E h \in Handlers : StartBooking(h) \/ ResumeBooking(h) \/ FinishBooking(h)

SpecRace == InitBooking /\ [][NextRace]_vars

-----------------------------------------------------------------------------
(* The account routes (/api/auth) and the user routes (/api/users), over   *)
(* the Users table.  A request body is a record of the keys the client     *)
(* sent.                                                                   *)

MaxRegistered == 1       \* the rows register may add to the Users table

MinPasswordLength == 6   \* body("password").isLength({ min: 6 })
MinNameLength == 2       \* body("name").optional().trim().isLength({ min: 2 })

\* the passwords clients type: two the validators accept and a short one
Passwords == {InitialPassword, "secret2"}
ShortPassword == "abc"

\* isEmail(): the text has the form of an address
MalformedEmail == "alice"
isEmail(e) == e # MalformedEmail

NewEmail == "carol@x"

EmptyBody == [k \in {} |-> ""]

\* a response that carries a token in its data
TokenResponse(status, message, token) ==
  [status |-> status, message |-> message, token |-> token]

\* a response that carries user rows in its data: their ids
DataResponse(status, ids) == [status |-> status, message |-> "", data |-> ids]

\* req.params.id of a route whose path has no :id
NoId == <<>>

UserRequest(route, header, at, id, body) ==
  [route |-> route, header |-> header, at |-> at, id |-> id, body |-> body]

UserOutcome(r, U, n) == [res |-> r, users |-> U, nextUserId |-> n]

\* SELECT ... FROM Users WHERE email = ?
UsersByEmail(U, email) == { u \in U : u.email = email }

\* const [user] = rows: the first row of a result
FirstRow(rows) == CHOOSE u \in rows : \A v \in rows : u.id <= v.id

\* POST /api/auth/register
registerHandlerNoEmailCheck(body, t, U, nid) ==
  IF \/ body.name = "" \/ ~isEmail(body.email)
     \/ Len(body.password) < MinPasswordLength
     \/ body.phone = ""
     \/ (HasProp(body, "type") /\ body.type \notin {"patient", "admin"})
  THEN UserOutcome(ValidationErrors, U, nid)
  ELSE
    LET type == IF HasProp(body, "type") THEN body.type ELSE "patient"
    IN UserOutcome(TokenResponse(201, "User registered successfully",
                                 jwtSign(nid, type, t, RegisterTtl)),
                   U \cup {UserRow(nid, body.email, body.name, type, bcryptHash(body.password))},
                   nid + 1)

registerHandler(body, t, U, nid) ==
  IF \/ body.name = "" \/ ~isEmail(body.email)
     \/ Len(body.password) < MinPasswordLength
     \/ body.phone = ""
     \/ (HasProp(body, "type") /\ body.type \notin {"patient", "admin"})
  THEN UserOutcome(ValidationErrors, U, nid)
  ELSE IF UsersByEmail(U, body.email) # {}
  THEN UserOutcome(Response(400, "User with this email already exists"), U, nid)
  ELSE
    LET type == IF HasProp(body, "type") THEN body.type ELSE "patient"
    IN UserOutcome(TokenResponse(201, "User registered successfully",
                                 jwtSign(nid, type, t, RegisterTtl)),
                   U \cup {UserRow(nid, body.email, body.name, type, bcryptHash(body.password))},
                   nid + 1)

InvalidCredentials == Response(401, "Invalid credentials")

\* POST /api/auth/login
loginHandler(body, t, U) ==
  IF ~isEmail(body.email) \/ body.password = ""
  THEN ValidationErrors
  ELSE IF UsersByEmail(U, body.email) = {}
  THEN InvalidCredentials
  ELSE
    LET user == FirstRow(UsersByEmail(U, body.email))
    IN IF ~bcryptCompare(body.password, user.password)
       THEN InvalidCredentials
       ELSE TokenResponse(200, "Login successful",
                          jwtSign(user.id, user.type, t, LoginTtl))

SetPasswordEveryRow(U, id, stored) ==
  { [u EXCEPT !.password = stored] : u \in U }

\* UPDATE Users SET password = ? WHERE id = ?
SetPassword(U, id, stored) ==
  { IF u.id = id THEN [u EXCEPT !.password = stored] ELSE u : u \in U }

PasswordIncorrect == Response(400, "Current password is incorrect")

\* PUT /api/auth/change-password, after authenticateToken
changePasswordHandler(user, body, U) ==
  IF body.currentPassword = "" \/ Len(body.newPassword) < MinPasswordLength
  THEN [res |-> ValidationErrors, users |-> U]
  ELSE IF UsersById(U, user.userId) = {}
  THEN [res |-> Response(404, "User not found"), users |-> U]
  ELSE
    LET row == FirstRow(UsersById(U, user.userId))
    IN IF ~bcryptCompare(body.currentPassword, row.password)
       THEN [res |-> PasswordIncorrect, users |-> U]
       ELSE [res |-> Response(200, "Password changed successfully"),
             users |-> SetPassword(U, user.userId, bcryptHash(body.newPassword))]

\* crypto.randomBytes(32).toString("hex"): the texts it may give
ResetTokens == {"0f", "a7"}

ResetTokenTtl == 3600000   \* new Date(Date.now() + 3600000)

\* a response that carries a reset token and its expiry in its data
ResetResponse(status, message, token, expiry) ==
  [status |-> status, message |-> message, resetToken |-> token, resetTokenExpiry |-> expiry]

\* POST /api/auth/forgot-password; resetToken is what randomBytes gave.  The
\* UPDATE that would store the token in the user's row is commented out: the
\* route writes nothing.
forgotPasswordHandler(body, t, U, resetToken) ==
  IF ~isEmail(body.email)
  THEN ValidationErrors
  ELSE IF UsersByEmail(U, body.email) = {}
  THEN Response(404, "User with this email not found")
  ELSE ResetResponse(200, "Password reset instructions sent to your email",
                     resetToken, t + ResetTokenTtl)

\* POST /api/auth/reset-password; no route stores a reset token (the UPDATE
\* of forgot-password is commented out), so the column is NULL in every row
resetPasswordHandler(body, U) ==
  IF body.token = "" \/ Len(body.newPassword) < MinPasswordLength
  THEN [res |-> ValidationErrors, users |-> U]
  ELSE
    LET found == { u \in U : HasProp(u, "reset_token") /\ u.reset_token = body.token }
    IN IF found = {}
       THEN [res |-> Response(400, "Invalid or expired reset token"), users |-> U]
       ELSE [res |-> Response(200, "Password reset successfully"),
             users |-> SetPassword(U, FirstRow(found).id, bcryptHash(body.newPassword))]


\* UPDATE Users SET <key> = ?, ... WHERE id = ?: every key of the body is
\* taken as a column and its value is written as sent
WriteColumns(row, body) ==
  [k \in DOMAIN row |->
     IF k \in DOMAIN body
     THEN IF k = "password" THEN PlainText(body[k]) ELSE body[k]
     ELSE row[k]]

UpdateRow(U, id, body) ==
  { IF u.id = id THEN WriteColumns(u, body) ELSE u : u \in U }

NoFields == Response(400, "No valid fields to update")

\* PUT /api/users/profile/me, after authenticateToken
updateProfileHandler(user, body, U) ==
  IF HasProp(body, "name") /\ Len(body.name) < MinNameLength
  THEN [res |-> ValidationErrors, users |-> U]
  ELSE IF DOMAIN body = {}
  THEN [res |-> NoFields, users |-> U]
  ELSE IF \E u \in U : ~(DOMAIN body \subseteq DOMAIN u)
  THEN \* unknown column: the query throws
       [res |-> Response(500, "Failed to update profile"), users |-> U]
  ELSE [res |-> Response(200, "Profile updated successfully"),
        users |-> UpdateRow(U, user.userId, body)]

\* SELECT ... FROM Users WHERE id = ?, with the :id text of the path as
\* the parameter
UsersWhereId(U, id) == { u \in U : SqlEqualsInt(id, u.id) }

\* body("type").optional().isIn(["user", "doctor", "admin"])
UpdatableTypes == {"user", "doctor", "admin"}

\* PUT /api/users/:id, after authenticateToken; id is the text of the path
updateUserHandler(id, body, U) ==
  IF \/ HasProp(body, "name") /\ Len(body.name) < MinNameLength
     \/ HasProp(body, "email") /\ ~isEmail(body.email)
     \/ HasProp(body, "type") /\ body.type \notin UpdatableTypes
  THEN [res |-> ValidationErrors, users |-> U]
  ELSE IF UsersWhereId(U, id) = {}
  THEN [res |-> Response(404, "User not found"), users |-> U]
  ELSE IF HasProp(body, "email") /\ UsersByEmail(U, body.email) \ UsersWhereId(U, id) # {}
  THEN [res |-> Response(400, "Email is already taken"), users |-> U]
  ELSE IF DOMAIN body = {}
  THEN [res |-> NoFields, users |-> U]
  ELSE IF \E u \in U : ~(DOMAIN body \subseteq DOMAIN u)
  THEN [res |-> Response(500, "Failed to update user"), users |-> U]
  ELSE [res |-> Response(200, "User updated successfully"),
        users |-> UpdateRow(U, FirstRow(UsersWhereId(U, id)).id, body)]

\* DELETE /api/users/:id, after authenticateToken; id is the text of the path
deleteUserHandler(user, id, U) ==
  IF ~isNaN(id) /\ parseInt(id) = user.userId
  THEN [res |-> Response(400, "Cannot delete your own account"), users |-> U]
  ELSE IF UsersWhereId(U, id) = {}
  THEN [res |-> Response(404, "User not found"), users |-> U]
  ELSE [res |-> Response(200, "User deleted successfully"),
        users |-> U \ UsersWhereId(U, id)]

\* GET /api/users
listUsersHandler(U) == DataResponse(200, { u.id : u \in U })

\* GET /api/users/:id
getUserHandler(id, U) ==
  IF UsersWhereId(U, id) = {}
  THEN Response(404, "User not found")
  ELSE DataResponse(200, {FirstRow(UsersWhereId(U, id)).id})

-----------------------------------------------------------------------------
(* The requests of the account and user routes *)

\* the callers: nobody, patient 1 and admin 4, each with the token signed
\* at their registration, sent so that its third piece is the token, and
\* the token of patient 1 sent as "Bearer <token>"
AccountCallers == { u.id : u \in { x \in InitUsers : x.name \in {"Alice", "Adam"} } }

AccountHeaders ==
  {NoHeader}
    \cup { SpacedHeader(CallerToken(i)) : i \in AccountCallers }
    \cup { BearerHeader(CallerToken(i)) : i \in { j \in AccountCallers : \A k \in AccountCallers : j <= k } }

\* the ids a request may name: those of the callers and the one past the
\* initial table
AccountIds == AccountCallers \cup {GoneUserId}

\* the :id texts of the paths: those ids as a client writes them
AccountIdTexts == { DecimalText(i) : i \in AccountIds }

RegisterBodies ==
  { [name |-> "Carol", email |-> e, password |-> p, phone |-> "555"] :
      e \in {NewEmail, "alice@x", MalformedEmail}, p \in Passwords \cup {ShortPassword} }
    \cup { [name |-> "Carol", email |-> e, password |-> InitialPassword, phone |-> "555", type |-> ty] :
             e \in {NewEmail, "alice@x"}, ty \in {"patient", "admin", "doctor"} }

LoginBodies ==
  [email : {"alice@x", "adam@x", NewEmail, MalformedEmail}, password : Passwords \cup {ShortPassword}]

ChangePasswordBodies ==
  [currentPassword : Passwords, newPassword : Passwords \cup {ShortPassword}]

ResetPasswordBodies ==
  [token : {"", "0f"}, newPassword : Passwords \cup {ShortPassword}]

\* the bodies of the two update routes: no key, a name the validator
\* refuses, and a password key
UpdateBodies ==
  {EmptyBody, [name |-> "A"]}
    \cup { [password |-> p] : p \in Passwords }

RegisterOn(Bodies) ==
  /\ Idle
  /\ \E b \in Bodies :
       LET out == registerHandler(b, now, users, nextUserId)
       IN /\ out.nextUserId <= Cardinality(InitUsers) + MaxRegistered + 1
          /\ req' = UserRequest("POST /api/auth/register", NoHeader, now, NoId, b)
          /\ res' = out.res
          /\ users' = out.users
          /\ nextUserId' = out.nextUserId
          /\ passwordSet' = Recorded(passwordSet, users, out.users, b.password)
          /\ UNCHANGED <<inflight, appointments, nextId, now, reqUser, nextCalled, resetSent, ambulances, ambulanceRequests, events, eventParticipants>>

Register == RegisterOn(RegisterBodies)

LoginOn(Bodies) ==
  /\ Idle
  /\ \E b \in Bodies :
       /\ req' = UserRequest("POST /api/auth/login", NoHeader, now, NoId, b)
       /\ res' = loginHandler(b, now, users)
       /\ UNCHANGED <<users, nextUserId, passwordSet, inflight, appointments, nextId, now, reqUser, nextCalled, resetSent, ambulances, ambulanceRequests, events, eventParticipants>>

Login == LoginOn(LoginBodies)

ChangePassword ==
  /\ Idle
  /\ \E h \in AccountHeaders, b \in ChangePasswordBodies :
       LET a == authenticateToken(h, now, users)
           out == IF a.next THEN changePasswordHandler(a.user, b, users)
                  ELSE [res |-> a.res, users |-> users]
       IN /\ req' = UserRequest("PUT /api/auth/change-password", h, now, NoId, b)
          /\ reqUser' = a.user
          /\ nextCalled' = a.next
          /\ res' = out.res
          /\ users' = out.users
          /\ passwordSet' = Recorded(passwordSet, users, out.users, b.newPassword)
          /\ UNCHANGED <<nextUserId, inflight, appointments, nextId, now, resetSent, ambulances, ambulanceRequests, events, eventParticipants>>

ResetPassword ==
  /\ Idle
  /\ \E b \in ResetPasswordBodies :
       LET out == resetPasswordHandler(b, users)
       IN /\ req' = UserRequest("POST /api/auth/reset-password", NoHeader, now, NoId, b)
          /\ res' = out.res
          /\ users' = out.users
          /\ passwordSet' = Recorded(passwordSet, users, out.users, b.newPassword)
          /\ UNCHANGED <<nextUserId, inflight, appointments, nextId, now, reqUser, nextCalled, resetSent, ambulances, ambulanceRequests, events, eventParticipants>>

UpdateProfileOn(Bodies) ==
  /\ Idle
  /\ \E h \in AccountHeaders, b \in Bodies :
       LET a == authenticateToken(h, now, users)
           out == IF a.next THEN updateProfileHandler(a.user, b, users)
                  ELSE [res |-> a.res, users |-> users]
       IN /\ req' = UserRequest("PUT /api/users/profile/me", h, now, NoId, b)
          /\ reqUser' = a.user
          /\ nextCalled' = a.next
          /\ res' = out.res
          /\ users' = out.users
          /\ UNCHANGED <<nextUserId, passwordSet, inflight, appointments, nextId, now, resetSent, ambulances, ambulanceRequests, events, eventParticipants>>

UpdateProfile == UpdateProfileOn(UpdateBodies)

UpdateUserOn(Ids, Bodies) ==
  /\ Idle
  /\ \E h \in AccountHeaders, id \in Ids, b \in Bodies :
       LET a == authenticateToken(h, now, users)
           out == IF a.next THEN updateUserHandler(id, b, users)
                  ELSE [res |-> a.res, users |-> users]
       IN /\ req' = UserRequest("PUT /api/users/:id", h, now, id, b)
          /\ reqUser' = a.user
          /\ nextCalled' = a.next
          /\ res' = out.res
          /\ users' = out.users
          /\ UNCHANGED <<nextUserId, passwordSet, inflight, appointments, nextId, now, resetSent, ambulances, ambulanceRequests, events, eventParticipants>>

UpdateUser == UpdateUserOn(AccountIdTexts, UpdateBodies)

DeleteUserOn(Ids) ==
  /\ Idle
  /\ \E h \in AccountHeaders, id \in Ids :
       LET a == authenticateToken(h, now, users)
           out == IF a.next THEN deleteUserHandler(a.user, id, users)
                  ELSE [res |-> a.res, users |-> users]
       IN /\ req' = UserRequest("DELETE /api/users/:id", h, now, id, EmptyBody)
          /\ reqUser' = a.user
          /\ nextCalled' = a.next
          /\ res' = out.res
          /\ users' = out.users
          /\ UNCHANGED <<nextUserId, passwordSet, inflight, appointments, nextId, now, resetSent, ambulances, ambulanceRequests, events, eventParticipants>>

DeleteUser == DeleteUserOn(AccountIdTexts)

\* the two GET routes are mounted without authenticateToken: the header is
\* not read
ListUsers ==
  /\ Idle
  /\ \E h \in AccountHeaders :
       /\ req' = UserRequest("GET /api/users", h, now, NoId, EmptyBody)
       /\ res' = listUsersHandler(users)
       /\ UNCHANGED <<users, nextUserId, passwordSet, inflight, appointments, nextId, now, reqUser, nextCalled, resetSent, ambulances, ambulanceRequests, events, eventParticipants>>

GetUser ==
  /\ Idle
  /\ \E h \in AccountHeaders, id \in AccountIdTexts :
       /\ req' = UserRequest("GET /api/users/:id", h, now, id, EmptyBody)
       /\ res' = getUserHandler(id, users)
       /\ UNCHANGED <<users, nextUserId, passwordSet, inflight, appointments, nextId, now, reqUser, nextCalled, resetSent, ambulances, ambulanceRequests, events, eventParticipants>>

NextUsers ==
  \/ Register \/ Login \/ ChangePassword \/ ResetPassword
  \/ UpdateProfile \/ UpdateUser \/ DeleteUser \/ ListUsers \/ GetUser
  \/ Done

SpecUsers == InitAuth /\ [][NextUsers]_vars

-----------------------------------------------------------------------------
(* Forgotten passwords: forgot-password, reset-password, login             *)

ForgotPasswordBodies == [email : {"alice@x", "adam@x", "nobody@x", MalformedEmail}]

\* the token, user and expiry of a forgot-password answer
Sent(r, U, email) ==
  [token |-> r.resetToken, userId |-> FirstRow(UsersByEmail(U, email)).id,
   expiry |-> r.resetTokenExpiry]

ForgotPassword ==
  /\ Idle
  /\ \E b \in ForgotPasswordBodies, resetToken \in ResetTokens :
       LET r == forgotPasswordHandler(b, now, users, resetToken)
       IN /\ req' = UserRequest("POST /api/auth/forgot-password", NoHeader, now, NoId, b)
          /\ res' = r
          /\ resetSent' = IF r.status = 200
                          THEN resetSent \cup {Sent(r, users, b.email)}
                          ELSE resetSent
          /\ UNCHANGED <<users, nextUserId, passwordSet, inflight, appointments, nextId, now, reqUser, nextCalled, ambulances, ambulanceRequests, events, eventParticipants>>

NextReset == ForgotPassword \/ ResetPassword \/ Login \/ Done

SpecReset == InitAuth /\ [][NextReset]_vars

-----------------------------------------------------------------------------
(* The same routes with the requests that touch a user's type, email and   *)
(* row: who is who                                                         *)

\* a text that writes the id n with a fraction and an exponent: 0.<n>e<k>
ScientificText(n) ==
  <<"0", ".">> \o DecimalText(n) \o <<"e">> \o DecimalText(Len(DecimalText(n)))

IdentityIdTexts == AccountIdTexts \cup { ScientificText(i) : i \in AccountCallers }

IdentityRegisterBodies ==
  { [name |-> "Carol", email |-> NewEmail, password |-> InitialPassword, phone |-> "555"],
    [name |-> "Carol", email |-> NewEmail, password |-> InitialPassword, phone |-> "555",
     type |-> "admin"] }

IdentityLoginBodies == [email : {"alice@x", "adam@x"}, password : {InitialPassword}]

\* bodies with a type key or an email key
IdentityBodies == { [type |-> "admin"], [type |-> "patient"], [email |-> "adam@x"] }

NextIdentity ==
  \/ RegisterOn(IdentityRegisterBodies)
  \/ LoginOn(IdentityLoginBodies)
  \/ UpdateProfileOn(IdentityBodies)
  \/ UpdateUserOn(IdentityIdTexts, IdentityBodies)
  \/ DeleteUserOn(IdentityIdTexts)
  \/ Done

SpecIdentity == InitAuth /\ [][NextIdentity]_vars

-----------------------------------------------------------------------------
(* Ambulance requests: POST /api/ambulance/request and                     *)
(* PUT /api/ambulance/requests/:id/status, handled concurrently            *)

AmbulanceRow(id, status) == [id |-> id, availability_status |-> status]

AmbulanceRequestRow(id, user, ambulance, status) ==
  [id |-> id, user_id |-> user, ambulance_id |-> ambulance, status |-> status]

\* body('emergencyType').isIn(['medical', 'accident', 'other'])
EmergencyTypes == {"medical", "accident", "other"}

\* body('status').isIn(['requested', 'completed', 'cancelled'])
RequestStatuses == {"requested", "completed", "cancelled"}

RequestAmbulanceRoute == "POST /api/ambulance/request"
RequestStatusRoute == "PUT /api/ambulance/requests/:id/status"

AmbulanceOutcome(act, Am, R) == [act |-> act, ambulances |-> Am, ambulanceRequests |-> R]

\* result.insertId: the AUTO_INCREMENT id of a table no route deletes from
InsertId(R) == Cardinality(R) + 1

\* POST /request: the awaited query runs on the tables as they are now, then
\* the handler runs on to its next query or to its response
requestAmbulanceResume(act, Am, R) ==
  LET ambulanceId == act.req.body.ambulanceId
      found == { a \in Am : a.id = ambulanceId }
  IN
  IF act.pc = "exists"
  THEN IF found = {}
       THEN AmbulanceOutcome(Answered(act, Response(404, "Ambulance service not found")), Am, R)
       ELSE AmbulanceOutcome(Awaiting(act, "available"), Am, R)
  ELSE IF act.pc = "available"
  THEN IF \E a \in found : a.availability_status # "available"
       THEN AmbulanceOutcome(Answered(act, Response(400, "Ambulance is not available at the moment")), Am, R)
       ELSE AmbulanceOutcome(Awaiting(act, "insert"), Am, R)
  ELSE IF act.pc = "insert"
  THEN AmbulanceOutcome(Awaiting(act, "busy"), Am,
         R \cup {AmbulanceRequestRow(InsertId(R), act.user.userId, ambulanceId, "requested")})
  ELSE IF act.pc = "busy"
  THEN AmbulanceOutcome(Awaiting(act, "created"),
         { IF a.id = ambulanceId THEN [a EXCEPT !.availability_status = "busy"] ELSE a : a \in Am },
         R)
  ELSE AmbulanceOutcome(Answered(act, Response(201, "Ambulance request created successfully")), Am, R)

\* PUT /requests/:id/status, after authenticateToken and authorizeRoles
updateRequestStatusResume(act, Am, R) ==
  LET requests == { r \in R : SqlEqualsInt(act.req.id, r.id) }
      status == act.req.body.status
  IN
  IF act.pc = "request"
  THEN IF requests = {}
       THEN AmbulanceOutcome(Answered(act, Response(404, "Ambulance request not found")), Am, R)
       ELSE AmbulanceOutcome(Awaiting(act, "update"), Am, R)
  ELSE IF act.pc = "update"
  THEN AmbulanceOutcome(
         IF status \in {"cancelled", "completed"}
         THEN Awaiting(act, "release")
         ELSE Answered(act, Response(200, "Ambulance request status updated successfully")),
         Am,
         { IF r \in requests THEN [r EXCEPT !.status = status] ELSE r : r \in R })
  ELSE \* request.ambulance_id, read by the first query; no route changes it
       AmbulanceOutcome(
         Answered(act, Response(200, "Ambulance request status updated successfully")),
         { IF \E r \in requests : r.ambulance_id = a.id
           THEN [a EXCEPT !.availability_status = "available"] ELSE a : a \in Am },
         R)

\* the callers: patients 1 and 2 and admin 4, with the token in the piece
\* of the header authenticateToken reads
AmbulanceHeaders == { SpacedHeader(CallerToken(i)) : i \in {1, 2, 4} }

\* one ambulance that is free, one that is out on a request, and an id no
\* row has
RequestBodies ==
  [ambulanceId : {1, 2, 3}, emergencyType : {"medical"}]
    \cup {[ambulanceId |-> 1, emergencyType |-> "none"]}

StatusBodies == [status : RequestStatuses \cup {"done"}]

InitAmbulance ==
  /\ users = InitUsers
  /\ nextUserId = Cardinality(InitUsers) + 1
  /\ passwordSet = [id \in { u.id : u \in InitUsers } |-> InitialPassword]
  /\ inflight = NoActivations
  /\ resetSent = {}
  /\ ambulances = {AmbulanceRow(1, "available"), AmbulanceRow(2, "busy")}
  /\ ambulanceRequests \in
       { {AmbulanceRequestRow(1, 2, 2, "requested")},
         {AmbulanceRequestRow(1, 2, 2, "requested"), AmbulanceRequestRow(2, 1, 1, "completed")} }
  /\ events = {} /\ eventParticipants = {}
  /\ appointments = {}
  /\ nextId = 1
  /\ now = 0
  /\ req = NoRequest
  /\ res = NoResponse
  /\ reqUser = NoUser
  /\ nextCalled = FALSE

\* a request for an ambulance arrives: authenticateToken and the validators
\* run, and the handler runs up to its first query
StartRequestAmbulance(h) ==
  /\ inflight[h].pc = "idle"
  /\ \E hd \in AmbulanceHeaders, b \in RequestBodies :
       LET a == authenticateToken(hd, now, users)
           act == Activation("exists", UserRequest(RequestAmbulanceRoute, hd, now, NoId, b),
                             a.user, NoResponse)
       IN inflight' = [inflight EXCEPT ![h] =
            IF ~a.next THEN Answered(act, a.res)
            ELSE IF b.emergencyType \notin EmergencyTypes
            THEN Answered(act, ValidationErrors)
            ELSE act]
  /\ UNCHANGED <<users, nextUserId, passwordSet, appointments, nextId, now, req, res, reqUser, nextCalled, resetSent, ambulances, ambulanceRequests, events, eventParticipants>>

\* a status update arrives: authenticateToken, authorizeRoles('admin') and
\* the validator run, and the handler runs up to its first query
StartUpdateRequestStatus(h) ==
  /\ inflight[h].pc = "idle"
  /\ \E hd \in AmbulanceHeaders, id \in 1..3, b \in StatusBodies :
       LET a == authenticateToken(hd, now, users)
           g == authorizeRoles(a.user, {"admin"})
           act == Activation("request", UserRequest(RequestStatusRoute, hd, now, DecimalText(id), b),
                             a.user, NoResponse)
       IN inflight' = [inflight EXCEPT ![h] =
            IF ~a.next THEN Answered(act, a.res)
            ELSE IF ~g.next THEN Answered(act, g.res)
            ELSE IF b.status \notin RequestStatuses
            THEN Answered(act, ValidationErrors)
            ELSE act]
  /\ UNCHANGED <<users, nextUserId, passwordSet, appointments, nextId, now, req, res, reqUser, nextCalled, resetSent, ambulances, ambulanceRequests, events, eventParticipants>>

\* the query an activation awaits completes
ResumeAmbulance(h) ==
  /\ inflight[h].pc \notin {"idle", "done"}
  /\ LET out == IF inflight[h].req.route = RequestAmbulanceRoute
                THEN requestAmbulanceResume(inflight[h], ambulances, ambulanceRequests)
                ELSE updateRequestStatusResume(inflight[h], ambulances, ambulanceRequests)
     IN /\ inflight' = [inflight EXCEPT ![h] = out.act]
        /\ ambulances' = out.ambulances
        /\ ambulanceRequests' = out.ambulanceRequests
  /\ UNCHANGED <<users, nextUserId, passwordSet, appointments, nextId, now, req, res, reqUser, nextCalled, resetSent, events, eventParticipants>>

\* the response has gone out
FinishAmbulance(h) ==
  /\ inflight[h].pc = "done"
  /\ inflight' = [inflight EXCEPT ![h] = NoActivations[h]]
  /\ UNCHANGED <<users, nextUserId, passwordSet, appointments, nextId, now, req, res, reqUser, nextCalled, resetSent, ambulances, ambulanceRequests, events, eventParticipants>>

NextAmbulance ==
  \E h \in Handlers :
    \/ StartRequestAmbulance(h) \/ StartUpdateRequestStatus(h)
    \/ ResumeAmbulance(h) \/ FinishAmbulance(h)

SpecAmbulance == InitAmbulance /\ [][NextAmbulance]_vars

-----------------------------------------------------------------------------
(* Events: POST /api/events/:id/join and DELETE /api/events/:id/leave,     *)
(* handled concurrently                                                    *)

MaxParticipants == 1     \* max_participants of the event of the model

EventRow(id, max, current, active) ==
  [id |-> id, max_participants |-> max, current_participants |-> current, is_active |-> active]

ParticipantRow(id, event, user) == [id |-> id, event_id |-> event, user_id |-> user]

JoinRoute == "POST /api/events/:id/join"
LeaveRoute == "DELETE /api/events/:id/leave"

EventOutcome(act, E, P) == [act |-> act, events |-> E, eventParticipants |-> P]

JoinFailed == Response(500, "Failed to join event")
LeaveFailed == Response(500, "Failed to leave event")

\* SELECT id FROM EventParticipants WHERE event_id = ? AND user_id = ?
ParticipantsWhere(P, id, user) ==
  { p \in P : SqlEqualsInt(id, p.event_id) /\ p.user_id = user.id }

\* UPDATE Events SET current_participants = current_participants + d WHERE id = ?
CountParticipants(E, id, d) ==
  { IF SqlEqualsInt(id, e.id)
    THEN [e EXCEPT !.current_participants = @ + d] ELSE e : e \in E }

\* POST /:id/join: the awaited query runs on the tables as they are now,
\* then the handler runs on to its next query or to its response
joinResume(act, E, P) ==
  LET id == act.req.id
      user == act.user
      found == { e \in E : SqlEqualsInt(id, e.id) /\ e.is_active = 1 }
  IN
  IF act.pc = "event"
  THEN IF found = {}
       THEN EventOutcome(Answered(act, Response(404, "Event not found")), E, P)
       ELSE IF \E event \in found : event.current_participants >= event.max_participants
       THEN EventOutcome(Answered(act, Response(400, "Event is full")), E, P)
       ELSE IF ~HasProp(user, "id")
       THEN \* a bind parameter is undefined: execute throws
            EventOutcome(Answered(act, JoinFailed), E, P)
       ELSE EventOutcome(Awaiting(act, "registered"), E, P)
  ELSE IF act.pc = "registered"
  THEN IF ParticipantsWhere(P, id, user) # {}
       THEN EventOutcome(Answered(act, Response(400, "You are already registered for this event")), E, P)
       ELSE EventOutcome(Awaiting(act, "insert"), E, P)
  ELSE IF act.pc = "insert"
  THEN EventOutcome(Awaiting(act, "count"), E,
         P \cup { ParticipantRow(InsertId(P), e.id, user.id) :
                    e \in { x \in E : SqlEqualsInt(id, x.id) } })
  ELSE EventOutcome(Answered(act, Response(200, "Successfully joined the event")),
                    CountParticipants(E, id, 1), P)

\* DELETE /:id/leave, from its first query on
leaveResume(act, E, P) ==
  LET id == act.req.id
      user == act.user
  IN
  IF act.pc = "registered"
  THEN IF ParticipantsWhere(P, id, user) = {}
       THEN EventOutcome(Answered(act, Response(400, "You are not registered for this event")), E, P)
       ELSE EventOutcome(Awaiting(act, "delete"), E, P)
  ELSE IF act.pc = "delete"
  THEN EventOutcome(Awaiting(act, "count"), E, P \ ParticipantsWhere(P, id, user))
  ELSE EventOutcome(Answered(act, Response(200, "Successfully left the event")),
                    CountParticipants(E, id, -1), P)

\* the callers: patients 1 and 2, with the token in the piece of the header
\* authenticateToken reads
EventHeaders == { SpacedHeader(CallerToken(i)) : i \in {1, 2} }

\* the event of the model, an event that is not active, and an id no row has
EventIdTexts == { DecimalText(i) : i \in 1..3 }

\* the rows of EventParticipants the server may start on: users 1 and 2 in
\* event 1, up to its max_participants
InitParticipants ==
  { P \in SUBSET { ParticipantRow(u, 1, u) : u \in {1, 2} } :
      /\ Cardinality(P) <= MaxParticipants
      /\ \A p \in P : p.id <= Cardinality(P) }

InitEvents ==
  /\ users = InitUsers
  /\ nextUserId = Cardinality(InitUsers) + 1
  /\ passwordSet = [id \in { u.id : u \in InitUsers } |-> InitialPassword]
  /\ inflight = NoActivations
  /\ resetSent = {}
  /\ ambulances = {} /\ ambulanceRequests = {}
  /\ eventParticipants \in InitParticipants
  /\ events = {EventRow(1, MaxParticipants, Cardinality(eventParticipants), 1),
               EventRow(2, MaxParticipants, 0, 0)}
  /\ appointments = {}
  /\ nextId = 1
  /\ now = 0
  /\ req = NoRequest
  /\ res = NoResponse
  /\ reqUser = NoUser
  /\ nextCalled = FALSE

\* a join request arrives: authenticateToken runs, and the handler runs up
\* to its first query
StartJoin(h) ==
  /\ inflight[h].pc = "idle"
  /\ \E hd \in EventHeaders, id \in EventIdTexts :
       LET a == authenticateToken(hd, now, users)
           act == Activation("event", UserRequest(JoinRoute, hd, now, id, EmptyBody),
                             a.user, NoResponse)
       IN inflight' = [inflight EXCEPT ![h] =
            IF ~a.next THEN Answered(act, a.res) ELSE act]
  /\ UNCHANGED <<users, nextUserId, passwordSet, appointments, nextId, now, req, res, reqUser, nextCalled, resetSent, ambulances, ambulanceRequests, events, eventParticipants>>

\* a leave request arrives: the first query binds req.user.id
StartLeave(h) ==
  /\ inflight[h].pc = "idle"
  /\ \E hd \in EventHeaders, id \in EventIdTexts :
       LET a == authenticateToken(hd, now, users)
           act == Activation("registered", UserRequest(LeaveRoute, hd, now, id, EmptyBody),
                             a.user, NoResponse)
       IN inflight' = [inflight EXCEPT ![h] =
            IF ~a.next THEN Answered(act, a.res)
            ELSE IF ~HasProp(a.user, "id")
            THEN \* a bind parameter is undefined: execute throws
                 Answered(act, LeaveFailed)
            ELSE act]
  /\ UNCHANGED <<users, nextUserId, passwordSet, appointments, nextId, now, req, res, reqUser, nextCalled, resetSent, ambulances, ambulanceRequests, events, eventParticipants>>

\* the query an activation awaits completes
ResumeEvent(h) ==
  /\ inflight[h].pc \notin {"idle", "done"}
  /\ LET out == IF inflight[h].req.route = JoinRoute
                THEN joinResume(inflight[h], events, eventParticipants)
                ELSE leaveResume(inflight[h], events, eventParticipants)
     IN /\ inflight' = [inflight EXCEPT ![h] = out.act]
        /\ events' = out.events
        /\ eventParticipants' = out.eventParticipants
  /\ UNCHANGED <<users, nextUserId, passwordSet, appointments, nextId, now, req, res, reqUser, nextCalled, resetSent, ambulances, ambulanceRequests>>

\* the response has gone out
FinishEvent(h) ==
  /\ inflight[h].pc = "done"
  /\ inflight' = [inflight EXCEPT ![h] = NoActivations[h]]
  /\ UNCHANGED <<users, nextUserId, passwordSet, appointments, nextId, now, req, res, reqUser, nextCalled, resetSent, ambulances, ambulanceRequests, events, eventParticipants>>

NextEvents ==
  \E h \in Handlers :
    StartJoin(h) \/ StartLeave(h) \/ ResumeEvent(h) \/ FinishEvent(h)

SpecEvents == InitEvents /\ [][NextEvents]_vars

-----------------------------------------------------------------------------
(* Claims about the authentication middleware *)

\* the request carried exactly "Bearer <token>" with a JWT as the token
IsBearerForm(h) ==
  /\ h.present
  /\ Len(h.text) = 3
  /\ h.text[1] = Bearer /\ h.text[2] = Space /\ h.text[3].ch = "jwt"

Handled == req.route # ""

\* the responses by which the middleware itself rejects a request
MissingToken == Response(401, "Access token required")
InvalidToken == Response(401, "Invalid token")
TokenExpired == Response(401, "Token expired")

IsErrorResponse(r) == r.status >= 400

\* C1: a request with "Bearer <token>", the token correctly signed, unexpired
\* and naming an existing user, gets the identity context {userId, email,
\* name, role} attached and is passed to the next handler with no error
\* response.
C1_BearerTokenAccepted ==
  (/\ Handled
   /\ IsBearerForm(req.header)
   /\ req.header.text[3].sig = "good"
   /\ ToSeconds(req.at) < req.header.text[3].exp
   /\ UsersById(users, req.header.text[3].userId) # {})
  => (/\ nextCalled
      /\ DOMAIN reqUser = {"userId", "email", "name", "role"}
      /\ reqUser.userId = req.header.text[3].userId
      /\ ~IsErrorResponse(res))

\* C2: a request with no Authorization header is rejected with 401 "Access
\* token required", never with a 500, and the next handler is not called.
C2_NoHeaderIsMissingToken ==
  (Handled /\ ~req.header.present)
  => (res = MissingToken /\ ~nextCalled)

\* C3: a request with "Bearer <token>" whose token is well formed but whose
\* signature does not verify is rejected with 401 "Invalid token", and the
\* next handler is not called.
C3_TamperedIsInvalidToken ==
  (Handled /\ IsBearerForm(req.header) /\ req.header.text[3].sig = "bad")
  => (res = InvalidToken /\ ~nextCalled)

\* C4: a token issued at t with lifetime ttl is accepted at every time before
\* t + ttl, and at every time at or after t + ttl it is rejected with 401
\* "Token expired", which is not the "Invalid token" outcome.
C4_AcceptedUntilExpiry ==
  (/\ Handled
   /\ IsBearerForm(req.header)
   /\ req.header.text[3].sig = "good"
   /\ UsersById(users, req.header.text[3].userId) # {})
  => IF ToSeconds(req.at) < req.header.text[3].exp
     THEN nextCalled /\ ~IsErrorResponse(res)
     ELSE res = TokenExpired /\ res # InvalidToken /\ ~nextCalled

-----------------------------------------------------------------------------
(* Claims about the role gate *)

\* C5: for every identity context and every allow-list, the role gate lets
\* the request proceed if and only if the role of the context is in the
\* allow-list; otherwise it answers 403 and the protected handler does not run.
C5_RoleGateIffAllowed ==
  req.route = "role gate"
  => /\ nextCalled <=> (HasProp(reqUser, "role") /\ reqUser.role \in req.roles)
     /\ nextCalled => res = NoResponse
     /\ ~nextCalled => res.status = 403

C5_Witness ==
  /\ req.route = "role gate"
  /\ HasProp(reqUser, "role") /\ reqUser.role = "admin"
  /\ req.roles = {"doctor", "admin"}
  /\ nextCalled

-----------------------------------------------------------------------------
(* Claims about the appointment routes *)

BookRoute == "POST /api/appointments"

\* a step that handles a booking request which passed authenticateToken and
\* the validators
BookStep ==
  /\ Idle
  /\ req'.route = BookRoute
  /\ nextCalled'
  /\ req'.appointment_date.valid
  /\ req'.reason # ""

\* the five checks of the booking rule, on the request and the store
ActiveDoctors(id) == { d \in Doctors : d.id = id /\ d.is_active = 1 }

DoctorOk(r) == ActiveDoctors(r.doctor_id) # {}

InFuture(r) == r.appointment_date.t > r.at

InWorkingHours(r) ==
  \E d \in ActiveDoctors(r.doctor_id) :
    /\ HourOf(r.appointment_date.t) >= parseInt(SubSeq(d.open_hour, 1, 2))
    /\ HourOf(r.appointment_date.t) < parseInt(SubSeq(d.close_hour, 1, 2))

DoctorSlotTaken(r, A) ==
  \E a \in A : /\ a.doctor_id = r.doctor_id
                /\ a.appointment_date = r.appointment_date.t
                /\ Occupies(a)

PatientSlotTaken(r, patient, A) ==
  \E a \in A : /\ a.patient_id = patient
                /\ a.appointment_date = r.appointment_date.t
                /\ Occupies(a)

SlotAlreadyBooked == Response(400, "This time slot is already booked")
PastDateRejected == Response(400, "Appointment must be scheduled for a future date")

\* C6: whatever requests are handled one after another, for every doctor and
\* dateTime at most one appointment has a status other than cancelled.
C6_DoctorSlotUnique == DoctorSlotInv(appointments)

\* C7: whatever requests are handled one after another, for every patient and
\* dateTime at most one appointment has a status other than cancelled.
C7_PatientSlotUnique == PatientSlotInv(appointments)

\* C8: a booking request of an authenticated patient that passes all five
\* checks inserts exactly one appointment, with status scheduled, the caller
\* as patient and the requested doctor and dateTime, and answers 201.
C8_BookingInserts ==
  [][(/\ BookStep
      /\ reqUser'.type = "patient"
      /\ DoctorOk(req') /\ InFuture(req') /\ InWorkingHours(req')
      /\ ~DoctorSlotTaken(req', appointments)
      /\ ~PatientSlotTaken(req', reqUser'.userId, appointments))
     => (/\ res'.status = 201
         /\ \E a \in appointments' \ appointments :
              /\ appointments' = appointments \cup {a}
              /\ a.status = "scheduled"
              /\ a.patient_id = reqUser'.userId
              /\ a.doctor_id = req'.doctor_id
              /\ a.appointment_date = req'.appointment_date.t)]_vars

\* C9: a booking request that passes checks 1-3 is rejected with 400 "This
\* time slot is already booked" if and only if some appointment of the same
\* doctor at the same dateTime is not cancelled; a rejected request inserts
\* nothing.
C9_SlotTakenIffRejected ==
  [][(BookStep /\ DoctorOk(req') /\ InFuture(req') /\ InWorkingHours(req'))
     => (/\ (res' = SlotAlreadyBooked) <=> DoctorSlotTaken(req', appointments)
         /\ (res'.status # 201) => (appointments' = appointments))]_vars

\* C10: a booking request for an existing active doctor whose dateTime is at
\* or before the time of the call, the very instant of the call included, is
\* rejected with 400 "Appointment must be scheduled for a future date" and
\* inserts nothing.
C10_PastDateRejected ==
  [][(BookStep /\ DoctorOk(req') /\ ~InFuture(req'))
     => (res' = PastDateRejected /\ appointments' = appointments)]_vars

\* a booking for the very instant of the call was rejected as past
C10_Witness ==
  /\ req.route = BookRoute
  /\ nextCalled
  /\ DoctorOk(req)
  /\ req.appointment_date.valid
  /\ req.appointment_date.t = req.at
  /\ res = PastDateRejected

DoctorNotFound == Response(404, "Doctor not found")
OutsideWorkingHours == Response(400, "Appointment time must be within doctor's working hours")
PatientDoubleBooking == Response(400, "You already have an appointment at this time")

\* C11: for a doctor with working hours [openHour, closeHour) and a future
\* dateTime, a booking request is rejected with 400 "Appointment time must be
\* within doctor's working hours" exactly when the hour of dateTime is before
\* openHour or at or after closeHour; a rejected request inserts nothing.
C11_OutsideHoursIffRejected ==
  [][(BookStep /\ DoctorOk(req') /\ InFuture(req'))
     => (/\ (res' = OutsideWorkingHours) <=> ~InWorkingHours(req')
         /\ (res'.status # 201) => (appointments' = appointments))]_vars

CancelRoute == "PUT /api/appointments/:id/cancel"

\* a step that handles a cancel request which passed authenticateToken
CancelStep ==
  /\ Idle
  /\ req'.route = CancelRoute
  /\ nextCalled'

\* the statuses that stand for cancelled: the one the cancel route writes and
\* the one the status-update route writes
IsCancelled(a) == ~Occupies(a)

IsTerminal(a) == IsCancelled(a) \/ a.status = "completed"

\* C12: a cancel request on an appointment that is already cancelled or
\* completed, by whichever route, is rejected with 400 and leaves the
\* appointment's status and notes as they were.
C12_TerminalCancelRejected ==
  [][(CancelStep /\ \E a \in appointments : a.id = req'.id /\ IsTerminal(a))
     => (res'.status = 400 /\ appointments' = appointments)]_vars

\* the callers that may cancel an appointment: the patient who owns it, the
\* doctor assigned to it, an admin
MayCancel(user, a) ==
  \/ user.type = "admin"
  \/ user.type = "patient" /\ a.patient_id = user.userId
  \/ user.type = "doctor" /\ \E d \in Doctors : d.id = a.doctor_id /\ d.user_id = user.userId

\* C13: a cancel request on a scheduled appointment succeeds only when the
\* caller is the patient who owns it, the doctor assigned to it or an admin; a
\* patient who does not own it is rejected with 403 and the status stays
\* scheduled.
C13_CancelOnlyByParty ==
  [][(CancelStep /\ \E a \in appointments : a.id = req'.id /\ a.status = "scheduled")
     => LET a == CHOOSE x \in appointments : x.id = req'.id
        IN /\ (res'.status = 200) => MayCancel(reqUser', a)
           /\ (reqUser'.type = "patient" /\ a.patient_id # reqUser'.userId)
                => (res'.status = 403 /\ appointments' = appointments)]_vars

\* the checks of the booking rule a request fails, by their number
FailedChecks(r, patient, A) ==
  { k \in 1..5 :
      \/ k = 1 /\ ~DoctorOk(r)
      \/ k = 2 /\ ~InFuture(r)
      \/ k = 3 /\ DoctorOk(r) /\ ~InWorkingHours(r)
      \/ k = 4 /\ DoctorSlotTaken(r, A)
      \/ k = 5 /\ PatientSlotTaken(r, patient, A) }

CheckResponse(k) ==
  CASE k = 1 -> DoctorNotFound
    [] k = 2 -> PastDateRejected
    [] k = 3 -> OutsideWorkingHours
    [] k = 4 -> SlotAlreadyBooked
    [] k = 5 -> PatientDoubleBooking

\* C19: the booking checks run in the order doctor, future date, working
\* hours, doctor slot, patient slot; a request that fails several of them at
\* once gets the response of the earliest check it fails.
C19_FirstFailingCheckAnswers ==
  [][BookStep
     => LET failed == FailedChecks(req', reqUser'.userId, appointments)
        IN Cardinality(failed) >= 2
           => res' = CheckResponse(CHOOSE k \in failed : \A j \in failed : k <= j)]_vars

-----------------------------------------------------------------------------
(* Claims about the account and user routes *)

RegisterRoute == "POST /api/auth/register"
LoginRoute == "POST /api/auth/login"
ChangePasswordRoute == "PUT /api/auth/change-password"

\* the registration inputs the validators accept
ValidRegistration(b) ==
  /\ b.name # "" /\ isEmail(b.email) /\ b.phone # ""
  /\ Len(b.password) >= MinPasswordLength
  /\ HasProp(b, "type") => b.type \in {"patient", "admin"}

IssuesToken(r) == HasProp(r, "token")

\* C14: a valid registration whose email already belongs to a stored user
\* fails with 400, creates no user, issues no token and leaves the existing
\* user's record unchanged.
C14_DuplicateEmailRejected ==
  [][(/\ Idle
      /\ req'.route = RegisterRoute
      /\ ValidRegistration(req'.body)
      /\ UsersByEmail(users, req'.body.email) # {})
     => (res'.status = 400 /\ ~IssuesToken(res') /\ users' = users)]_vars

\* a valid registration with the email of Alice was answered 400
C14_Witness ==
  /\ req.route = RegisterRoute
  /\ ValidRegistration(req.body)
  /\ UsersByEmail(users, req.body.email) # {}
  /\ res = Response(400, "User with this email already exists")

\* the password texts clients submit in request bodies
SubmittedPasswords == Passwords \cup {ShortPassword}

\* C15: under every sequence of register, change-password, reset-password,
\* profile-update and user-update requests, no user's stored password equals
\* a plaintext password submitted in a request body.
C15_NoPlaintextPassword ==
  \A u \in users, p \in SubmittedPasswords : u.password # PlainText(p)

\* C16: for well-formed input, login answers 200 with a token if and only if
\* a user with the given email exists and the given password is the one most
\* recently set for that user; in every other case it answers 401 "Invalid
\* credentials", the same for an unknown email and a wrong password, and
\* issues no token.
C16_LoginIffCredentials ==
  [][(/\ Idle
      /\ req'.route = LoginRoute
      /\ isEmail(req'.body.email)
      /\ req'.body.password # "")
     => IF \E u \in UsersByEmail(users, req'.body.email) :
             passwordSet[u.id] = req'.body.password
        THEN res'.status = 200 /\ IssuesToken(res')
        ELSE res' = InvalidCredentials]_vars

\* the rows of the other users, and the row of the caller with a new password
OnlyPasswordOf(U, id, stored) ==
  { IF u.id = id THEN [u EXCEPT !.password = stored] ELSE u : u \in U }

\* C17: an authenticated change-password whose currentPassword does not match
\* the caller's stored password answers 400 and leaves the stored password
\* unchanged; when it matches, the caller's stored password becomes the hash
\* of newPassword and every other user's record is unchanged.
C17_ChangePasswordChecked ==
  [][(/\ Idle
      /\ req'.route = ChangePasswordRoute
      /\ nextCalled'
      /\ Len(req'.body.newPassword) >= MinPasswordLength)
     => LET me == CHOOSE u \in users : u.id = reqUser'.userId
        IN IF me.password = bcryptHash(req'.body.currentPassword)
           THEN /\ res'.status = 200
                /\ users' = OnlyPasswordOf(users, me.id, bcryptHash(req'.body.newPassword))
           ELSE /\ res'.status = 400
                /\ users' = users]_vars

\* a caller changed their password to another one
C17_Witness ==
  /\ req.route = ChangePasswordRoute
  /\ nextCalled
  /\ req.body.currentPassword # req.body.newPassword
  /\ res.status = 200
  /\ \E u \in users : u.id = reqUser.userId /\ u.password = bcryptHash(req.body.newPassword)
  /\ \E u \in users : u.id # reqUser.userId /\ u.password # bcryptHash(req.body.newPassword)

UserManagementRoutes ==
  {"GET /api/users", "GET /api/users/:id", "PUT /api/users/:id", "DELETE /api/users/:id"}

\* the request presents a correctly signed, unexpired token of a stored admin
AdminCaller(r, U) ==
  /\ r.header.present
  /\ \E i \in 1..Len(r.header.text) :
       LET tok == r.header.text[i]
       IN /\ tok.ch = "jwt" /\ tok.sig = "good" /\ ToSeconds(r.at) < tok.exp
          /\ \E u \in U : u.id = tok.userId /\ u.type = "admin"

\* C18: the user-management routes read or change user records only for a
\* caller authenticated as admin; for every other caller the request is
\* rejected and the user store is unchanged.
C18_UserRoutesAdminOnly ==
  [][(Idle /\ req'.route \in UserManagementRoutes /\ ~AdminCaller(req', users))
     => (IsErrorResponse(res') /\ ~HasProp(res', "data") /\ users' = users)]_vars

-----------------------------------------------------------------------------
(* Claims about concurrent bookings *)

InFlight(act) == act.pc \notin {"idle", "done"}

\* two activations handle bookings of different patients for the same doctor
\* and dateTime, both passing checks 1-3, while no stored appointment
\* occupies the slot and neither patient has an appointment at that time
Racing(I, A) ==
  \E h \in Handlers, k \in Handlers :
    /\ InFlight(I[h]) /\ InFlight(I[k])
    /\ I[h].user.userId # I[k].user.userId
    /\ I[h].req.doctor_id = I[k].req.doctor_id
    /\ I[h].req.appointment_date = I[k].req.appointment_date
    /\ DoctorOk(I[h].req) /\ InWorkingHours(I[h].req)
    /\ InFuture(I[h].req) /\ InFuture(I[k].req)
    /\ ~DoctorSlotTaken(I[h].req, A)
    /\ ~PatientSlotTaken(I[h].req, I[h].user.userId, A)
    /\ ~PatientSlotTaken(I[k].req, I[k].user.userId, A)

\* C20: when two booking requests for the same doctor and dateTime run
\* concurrently, both pass the availability check before either inserts: as
\* long as neither has inserted, neither is rejected, and the one that
\* answers does so with 201 after inserting, so that both insert.
C20_BothPassThenInsert ==
  [][Racing(inflight, appointments)
     => \A h \in Handlers :
          /\ inflight'[h].res.status \in {0, 201}
          /\ (inflight'[h].res.status = 201 /\ inflight[h].res.status # 201)
               => Cardinality(appointments') = Cardinality(appointments) + 1]_vars

-----------------------------------------------------------------------------
(* Appointment status life cycle *)

StatusRoute == "PUT /api/appointments/:id"

\* a step that handles a cancel or a status-update request
StatusChangeStep ==
  /\ Idle
  /\ req'.route \in {CancelRoute, StatusRoute}

\* C21: once an appointment's status is completed or cancelled, no cancel
\* request and no status-update request changes its status again.
C21_TerminalStatusStays ==
  [][StatusChangeStep
     => \A a \in appointments, b \in appointments' :
          (a.id = b.id /\ a.status \in {"completed", "cancelled"})
          => b.status = a.status]_vars

\* C22: the status of every stored appointment is one of scheduled,
\* completed, cancelled.
C22_StatusInDomain ==
  \A a \in appointments : a.status \in {"scheduled", "completed", "cancelled"}

-----------------------------------------------------------------------------
(* Claims about deleted users and the identity context *)

\* the routes of SpecUsers that are mounted behind authenticateToken
GatedUserRoutes ==
  {"PUT /api/auth/change-password", "PUT /api/users/profile/me",
   "PUT /api/users/:id", "DELETE /api/users/:id"}

\* the JWTs a header carries, wherever they stand in it
TokensOf(h) == { h.text[i] : i \in { j \in 1..Len(h.text) : h.text[j].ch = "jwt" } }

\* the user of the token once had a row (a password was recorded for the id)
\* and has none now
IsDeleted(id, U) == id \in DOMAIN passwordSet /\ UsersById(U, id) = {}

UserNotFound == Response(401, "User not found")

\* C23: after a user's row has been deleted, a request to a route behind
\* authenticateToken that presents that user's correctly signed, unexpired
\* token is answered 401 "User not found" and the handler is not called.
C23_DeletedUserRejected ==
  [][(/\ Idle
      /\ req'.route \in GatedUserRoutes
      /\ \E tok \in TokensOf(req'.header) :
           /\ tok.sig = "good"
           /\ ToSeconds(req'.at) < tok.exp
           /\ IsDeleted(tok.userId, users))
     => (res' = UserNotFound /\ ~nextCalled')]_vars

\* a step that handles a request which passed authenticateToken
PassedGate ==
  /\ Idle
  /\ req'.route \in GatedUserRoutes
  /\ nextCalled'

\* C24 as stated: the type in the identity context is the type embedded in
\* the token when it was signed, whatever type is stored for the user now.
C24_TypeFromToken ==
  [][PassedGate
     => \A tok \in TokensOf(req'.header) : reqUser'.type = tok.type]_vars

\* C24, amended: the type in the identity context is the type stored for the
\* user of the token when the request is handled, whatever type the token
\* embeds.
C24_TypeFromStore ==
  [][PassedGate
     => \A tok \in TokensOf(req'.header) :
          \E u \in users :
            /\ u.id = tok.userId
            /\ reqUser'.userId = u.id
            /\ reqUser'.type = u.type]_vars

\* a request passed the gate with a token that embeds another type than the
\* one stored for its user
C24_Witness ==
  /\ req.route \in GatedUserRoutes
  /\ nextCalled
  /\ \E tok \in TokensOf(req.header) : tok.type = "patient" /\ reqUser.type = "admin"

DeleteUserRoute == "DELETE /api/users/:id"

\* C25: a DELETE /api/users/:id whose :id is the caller's own id is answered
\* 400 and deletes nothing, and after any request a user made, that user's
\* row is still stored.
C25_NoSelfDelete ==
  [][PassedGate
     => /\ (req'.route = DeleteUserRoute /\ req'.id = DecimalText(reqUser'.userId))
             => (res'.status = 400 /\ users' = users)
        /\ \E u \in users' : u.id = reqUser'.userId]_vars

\* C26: no two stored users have the same email.
C26_EmailUnique ==
  \A u \in users, v \in users : u.email = v.email => u.id = v.id

\* a step that handles a request of a caller who is not an admin: one that
\* did not pass authenticateToken, or whose user has another type
NonAdminStep ==
  /\ Idle
  /\ req'.route # ""
  /\ nextCalled' => reqUser'.type # "admin"

\* C27: a request of a caller who is not an admin leaves no user with type
\* admin who was not one before, and changes the stored type of no user.
C27_NoEscalation ==
  [][NonAdminStep
     => /\ \A v \in users' :
             v.type = "admin" => \E u \in users : u.id = v.id /\ u.type = "admin"
        /\ \A u \in users, v \in users' : u.id = v.id => v.type = u.type]_vars

-----------------------------------------------------------------------------
(* Claims about forgotten passwords *)

ResetPasswordRoute == "POST /api/auth/reset-password"

\* a step that handles a reset-password request presenting, before its
\* expiry, a token forgot-password answered with, and a new password the
\* validator accepts
ResetStep(sent) ==
  /\ Idle
  /\ req'.route = ResetPasswordRoute
  /\ sent \in resetSent
  /\ req'.body.token = sent.token
  /\ req'.at < sent.expiry
  /\ Len(req'.body.newPassword) >= MinPasswordLength

\* C30: a reset-password request presenting, before its expiry, the token a
\* successful forgot-password answered with succeeds and replaces the
\* password of that user, so that a login with the new password succeeds.
C30_ResetAfterForgot ==
  [][\A sent \in resetSent :
       ResetStep(sent)
       => /\ res'.status = 200
          /\ \E u \in users' :
               /\ u.id = sent.userId
               /\ loginHandler([email |-> u.email, password |-> req'.body.newPassword],
                               req'.at, users').status = 200]_vars

-----------------------------------------------------------------------------
(* Claims about ambulance requests *)

\* no handler stands between two of its queries
Quiescent == \A h \in Handlers : ~InFlight(inflight[h])

Requested(a, R) == { r \in R : r.ambulance_id = a.id /\ r.status = "requested" }

\* C28: whenever no request is half way through its handler, each ambulance
\* has at most one ambulance request with status requested, and an ambulance
\* that has one has availability_status busy.
C28_OneRequestPerAmbulance ==
  Quiescent
  => \A a \in ambulances :
       /\ Cardinality(Requested(a, ambulanceRequests)) <= 1
       /\ Requested(a, ambulanceRequests) # {} => a.availability_status = "busy"

-----------------------------------------------------------------------------
(* Claims about events *)

Registered(e, P) == { p \in P : p.event_id = e.id }

\* C29: the number of participants registered for an event never exceeds
\* the event's max_participants.
C29_WithinCapacity ==
  \A e \in events : Cardinality(Registered(e, eventParticipants)) <= e.max_participants

\* a join request for an event that is full has been answered "Event is
\* full", while another request is being handled
C29_Witness ==
  \E h \in Handlers, k \in Handlers :
    /\ h # k
    /\ inflight[h].req.route = JoinRoute
    /\ inflight[h].res = Response(400, "Event is full")
    /\ inflight[k].pc # "idle"
    /\ \E e \in events :
         /\ SqlEqualsInt(inflight[h].req.id, e.id)
         /\ Cardinality(Registered(e, eventParticipants)) = e.max_participants

====
